---- MODULE Spec2Model ----
(***************************************************************************)
(* The server-side call path of grpc-rust: GrpcHttpService::start_request  *)
(* (src/src/server.rs), the two call starters, the service definition, the *)
(* type-erased dispatcher, the four method handler adapters, and the       *)
(* handlers of the interop test server (src/interop/src/bin/               *)
(* interop_server.rs).                                                     *)
(*                                                                         *)
(* One call is in flight at a time.  The transport calls start_request,    *)
(* delivers request frames (Recv), polls the response future               *)
(* (PollResponse) and then the stream of HTTP parts (PollPart).  Under the *)
(* pooled call starter the worker task is PoolPoll.  Futures and streams   *)
(* are lazy: what a poll consumes and produces is computed by the Poll*    *)
(* operators below.                                                        *)
(***************************************************************************)
EXTENDS Integers, Sequences, FiniteSets, TLC

\* Largest number of request frames the client sends on one call.
MaxFrames == 3

\* The same bound where progress is checked.
MaxLiveFrames == 1

-----------------------------------------------------------------------------
(* interop_server.rs: the dictionary and make_string *)

\* "ABCDEFGHIJKLMNOPQRSTUVabcdefghijklmnoqprstuvwxyz0123456789" as bytes.
DICTIONARY ==
    << 65, 66, 67, 68, 69, 70, 71, 72, 73, 74, 75, 76, 77, 78, 79, 80, 81,
       82, 83, 84, 85, 86,
       97, 98, 99, 100, 101, 102, 103, 104, 105, 106, 107, 108, 109, 110, 111,
       113, 112, 114, 115, 116, 117, 118, 119, 120, 121, 122,
       48, 49, 50, 51, 52, 53, 54, 55, 56, 57 >>

DICTIONARY_SIZE == 58

\* make_string with the index taken one place too far.
make_string_shifted(size) ==
    [n \in 1..size |-> DICTIONARY[(n % DICTIONARY_SIZE) + 1]]

\* for n in 0..size { result.push(dict[n % DICTIONARY_SIZE]) }
make_string(size) ==
    [n \in 1..size |-> DICTIONARY[((n - 1) % DICTIONARY_SIZE) + 1]]

-----------------------------------------------------------------------------
(* Errors, metadata, headers *)

NoError == [kind |-> "none", grpc_status |-> 0, text |-> ""]

\* Error::GrpcMessage(GrpcMessageError { grpc_status, grpc_message })
GrpcMessage(status, message) ==
    [kind |-> "GrpcMessage", grpc_status |-> status, text |-> message]

\* Error::Panic(message)
Panic(message) == [kind |-> "Panic", grpc_status |-> 0, text |-> message]

\* Any other variant of Error; text is what {:?} prints for it.
OtherError(debug) == [kind |-> "Other", grpc_status |-> 0, text |-> debug]

DecodeError == OtherError("Protobuf(WireError)")
SingleEmptyError == OtherError("Other(expected exactly one request message, got none)")
SingleManyError == OtherError("Other(expected exactly one request message)")
UserError == OtherError("Other(user)")

Header(name, value) == [name |-> name, value |-> value]

HEADER_GRPC_STATUS == "grpc-status"
HEADER_GRPC_MESSAGE == "grpc-message"

\* Header names that never become metadata (pseudo-headers and the
\* transport's own), and the binary-valued keys of the model.
ReservedNames ==
    {":path", ":method", ":status", "content-type", "grpc-status",
     "grpc-message", "grpc-encoding", "te", "user-agent"}
BinaryNames == {"trace-bin"}
ValidBase64 == {"AQI="}

\* headers.get_opt(name): the value of the first header so named.
RECURSIVE get_opt(_, _)
get_opt(headers, name) ==
    IF headers = << >> THEN [some |-> FALSE, value |-> ""]
    ELSE IF Head(headers).name = name
         THEN [some |-> TRUE, value |-> Head(headers).value]
         ELSE get_opt(Tail(headers), name)

\* Metadata::from_headers: reserved headers dropped, the others kept in
\* order; a binary key whose value is not base64 is an error.
from_headers(headers) ==
    LET kept == SelectSeq(headers, LAMBDA h : h.name \notin ReservedNames)
        bad  == \E i \in 1..Len(kept) :
                    /\ kept[i].name \in BinaryNames
                    /\ kept[i].value \notin ValidBase64
    IN  [ok |-> ~bad,
         metadata |-> IF bad THEN << >>
                      ELSE [i \in 1..Len(kept) |->
                              [key |-> kept[i].name, value |-> kept[i].value]]]

\* Metadata::into_headers: one header per entry, in order.
into_headers(metadata) ==
    [i \in 1..Len(metadata) |-> Header(metadata[i].key, metadata[i].value)]

-----------------------------------------------------------------------------
(* Messages of the interop service, request frames, marshallers *)

\* The request messages (SimpleRequest, StreamingOutputCallRequest,
\* StreamingInputCallRequest, Empty) carry the fields the handlers read:
\* response_status {code, message}, response_size, the sizes of
\* response_parameters, and payload.body.
Request(code, message, response_size, sizes, body) ==
    [code |-> code, message |-> message, response_size |-> response_size,
     sizes |-> sizes, body |-> body]

\* A response message: SimpleResponse and StreamingOutputCallResponse carry
\* payload.body, StreamingInputCallResponse aggregated_payload_size.
Response(type, body, aggregated_payload_size) ==
    [type |-> type, body |-> body,
     aggregated_payload_size |-> aggregated_payload_size]

\* A request frame as the frame decoder hands it on: bytes that the request
\* marshaller either decodes to a message or rejects.
Frame(valid, msg) == [valid |-> valid, msg |-> msg]

\* desc.req_marshaller.read(&frame)
req_marshaller_read(frame) ==
    IF frame.valid THEN [ok |-> TRUE, req |-> frame.msg, err |-> NoError]
    ELSE [ok |-> FALSE, req |-> frame.msg, err |-> DecodeError]

\* desc.resp_marshaller.write(&resp): the bytes of the message.
resp_marshaller_write(resp) == [bytes_of |-> resp]

\* write_grpc_frame_to_vec(&frame): flag 0, the length, the payload.
write_grpc_frame_to_vec(payload) == [compressed |-> 0, payload |-> payload]

-----------------------------------------------------------------------------
(* Responses: what a stream yields, SingleResponse, StreamingResponse *)

NoResponse == Response("none", << >>, 0)

\* Results of polling a stream (and the elements queued inside one).
Item(val)     == [ev |-> "item", val |-> val, err |-> NoError, md |-> << >>]
Err(e)        == [ev |-> "err", val |-> NoResponse, err |-> e, md |-> << >>]
Trailing(md)  == [ev |-> "trailing", val |-> NoResponse, err |-> NoError, md |-> md]
End           == [ev |-> "end", val |-> NoResponse, err |-> NoError, md |-> << >>]
NotReady      == [ev |-> "notready", val |-> NoResponse, err |-> NoError, md |-> << >>]

\* The state of a response stream: events already computed (evs), and where
\* further ones come from: nowhere ("none"), the fold of
\* streaming_input_call ("fold"), the flattened map of full_duplex_call
\* ("flat").
Stream(src, evs) == [src |-> src, evs |-> evs, acc |-> 0]
EmptyStream == Stream("none", << >>)

\* The inner future of a SingleResponse: resolved ("ok", "err") or the fold
\* of streaming_input_call still to run ("fold").
Inner(state, val, e, trailing) ==
    [state |-> state, val |-> val, err |-> e, trailing |-> trailing]

\* SingleResponse(future of (metadata, future of (item, trailing metadata)))
SingleResponse(ok, e, metadata, inner) ==
    [ok |-> ok, err |-> e, metadata |-> metadata, inner |-> inner]

\* StreamingResponse(future of (metadata, stream))
StreamingResponse(ok, e, metadata, stream) ==
    [ok |-> ok, err |-> e, metadata |-> metadata, stream |-> stream]

SingleResponse_completed(r) ==
    SingleResponse(TRUE, NoError, << >>, Inner("ok", r, NoError, << >>))

SingleResponse_no_metadata(inner) ==
    SingleResponse(TRUE, NoError, << >>, inner)

SingleResponse_err(e) ==
    SingleResponse(FALSE, e, << >>, Inner("err", NoResponse, e, << >>))

StreamingResponse_no_metadata(stream) ==
    StreamingResponse(TRUE, NoError, << >>, stream)

StreamingResponse_empty == StreamingResponse_no_metadata(EmptyStream)

StreamingResponse_err(e) == StreamingResponse(FALSE, e, << >>, EmptyStream)

\* SingleResponse::into_stream: the item, then the trailing metadata; a
\* failed inner future is a stream that yields the error and ends.
into_stream(single) ==
    StreamingResponse(single.ok, single.err, single.metadata,
        CASE single.inner.state = "ok" ->
                Stream("none", << Item(single.inner.val),
                                  Trailing(single.inner.trailing) >>)
          [] single.inner.state = "err" ->
                Stream("none", << Err(single.inner.err) >>)
          [] OTHER -> Stream("fold", << >>))

-----------------------------------------------------------------------------
(* interop_server.rs: the handlers of TestServerImpl *)

\* fn empty_call
empty_call(o, req) == SingleResponse_completed(Response("Empty", << >>, 0))

\* fn unary_call
unary_call(o, req) ==
    IF req.code # 0
    THEN SingleResponse_no_metadata(
            Inner("err", NoResponse, GrpcMessage(req.code, req.message), << >>))
    ELSE SingleResponse_completed(
            Response("SimpleResponse", make_string(req.response_size), 0))

\* fn cacheable_unary_call
cacheable_unary_call(o, req) ==
    SingleResponse_completed(Response("SimpleResponse", << >>, 0))

\* SizedResponses with the responses in the reverse of the list's order.
SizedResponses_Reversed(sizes) ==
    [i \in 1..Len(sizes) |->
        Item(Response("StreamingOutputCallResponse",
                      make_string(sizes[Len(sizes) + 1 - i]), 0))]

\* The stream::iter(sizes).map(...) of streaming_output_call and
\* full_duplex_call: one response per size, in the order of the list.
SizedResponses(sizes) ==
    [i \in 1..Len(sizes) |->
        Item(Response("StreamingOutputCallResponse", make_string(sizes[i]), 0))]

\* fn streaming_output_call
streaming_output_call(o, req) ==
    StreamingResponse_no_metadata(Stream("none", SizedResponses(req.sizes)))

\* fn streaming_input_call: the response is the fold of the request stream,
\* run when the response is polled.
streaming_input_call(o) ==
    SingleResponse_no_metadata(Inner("fold", NoResponse, NoError, << >>))

\* streaming_input_call_fold keeping the last length instead of the sum.
streaming_input_call_fold_last(a, req) == Len(req.body)

\* ... .map(|req| req.get_payload().body.len() as i32).fold(0, |a, b| a + b)
streaming_input_call_fold(a, req) == a + Len(req.body)

\* ... .map(|aggregate_size| response)
streaming_input_call_response(aggregate_size) ==
    Response("StreamingInputCallResponse", << >>, aggregate_size)

\* fn full_duplex_call: the response is the flattened map of the request
\* stream, run when the response is polled.
full_duplex_call(o) == StreamingResponse_no_metadata(Stream("flat", << >>))

\* The closure of full_duplex_call's map: the stream made for one request.
full_duplex_call_map(req) ==
    IF req.code # 0
    THEN << Err(GrpcMessage(req.code, req.message)) >>
    ELSE SizedResponses(req.sizes)

\* fn half_duplex_call
half_duplex_call(o) == StreamingResponse_empty

-----------------------------------------------------------------------------
(* Handlers registered by a user of the library *)

UserItem(n) == Response("User", make_string(n), 0)
UserMetadata == << [key |-> "x-user", value |-> "u"] >>
UserTrailing == << [key |-> "x-trailer", value |-> "t"] >>

\* What a user's closure does when it is called: panic with a message, or
\* return a response.
DoesPanic(msg) ==
    [does |-> "panic", msg |-> msg,
     single |-> SingleResponse_err(NoError),
     streaming |-> StreamingResponse_err(NoError)]
DoesReturnSingle(r) ==
    [does |-> "return", msg |-> "", single |-> r,
     streaming |-> StreamingResponse_err(NoError)]
DoesReturnStreaming(r) ==
    [does |-> "return", msg |-> "", single |-> SingleResponse_err(NoError),
     streaming |-> r]
NoUser == DoesReturnSingle(SingleResponse_err(NoError))

\* Closures Fn(RequestOptions, _) -> SingleResponse
UserSingle ==
    { DoesPanic("P"),
      DoesReturnSingle(SingleResponse_err(UserError)),
      DoesReturnSingle(SingleResponse(TRUE, NoError, UserMetadata,
                          Inner("ok", UserItem(1), NoError, UserTrailing))),
      DoesReturnSingle(SingleResponse_no_metadata(
                          Inner("err", NoResponse, GrpcMessage(7, "denied"), << >>))),
      DoesReturnSingle(SingleResponse_no_metadata(
                          Inner("err", NoResponse, UserError, << >>))) }

\* The streams a user's closure returns.
UserScripts ==
    { << >>,
      << Item(UserItem(1)), Item(UserItem(2)), Trailing(UserTrailing) >>,
      << Item(UserItem(1)), Err(GrpcMessage(7, "denied")), Item(UserItem(2)) >>,
      << Item(UserItem(1)), Err(UserError), Trailing(UserTrailing) >>,
      << Err(UserError), Err(GrpcMessage(7, "denied")) >> }

\* Closures Fn(RequestOptions, _) -> StreamingResponse
UserStreaming ==
    { DoesPanic("P"),
      DoesReturnStreaming(StreamingResponse_err(UserError)) }
    \cup { DoesReturnStreaming(
              StreamingResponse(TRUE, NoError, UserMetadata, Stream("none", evs)))
           : evs \in UserScripts }

-----------------------------------------------------------------------------
(* server.rs: service definition, method handlers, dispatch *)

\* ServerMethod { name, dispatch }: the dispatcher holds a method handler of
\* one streaming flavor around a closure f.
ServerMethod(name, flavor, f) == [name |-> name, flavor |-> flavor, f |-> f]

\* The methods of the interop TestService.
TestService ==
    << ServerMethod("/grpc.testing.TestService/EmptyCall", "Unary", "empty_call"),
       ServerMethod("/grpc.testing.TestService/UnaryCall", "Unary", "unary_call"),
       ServerMethod("/grpc.testing.TestService/CacheableUnaryCall", "Unary",
                    "cacheable_unary_call"),
       ServerMethod("/grpc.testing.TestService/StreamingOutputCall",
                    "ServerStreaming", "streaming_output_call"),
       ServerMethod("/grpc.testing.TestService/StreamingInputCall",
                    "ClientStreaming", "streaming_input_call"),
       ServerMethod("/grpc.testing.TestService/FullDuplexCall", "Bidi",
                    "full_duplex_call"),
       ServerMethod("/grpc.testing.TestService/HalfDuplexCall", "Bidi",
                    "half_duplex_call") >>

\* A service of user closures, one per streaming flavor.
UserService ==
    << ServerMethod("/user.Service/Unary", "Unary", "user"),
       ServerMethod("/user.Service/ClientStreaming", "ClientStreaming", "user"),
       ServerMethod("/user.Service/ServerStreaming", "ServerStreaming", "user"),
       ServerMethod("/user.Service/Bidi", "Bidi", "user") >>

\* A definition that registers the name of EmptyCall a second time, with
\* another handler: join does not refuse it.
SecondEmptyCall ==
    << ServerMethod("/grpc.testing.TestService/EmptyCall", "Unary", "unary_call") >>

\* ServerServiceDefinition::new
ServerServiceDefinition_new(methods) == [methods |-> methods]

\* ServerServiceDefinition::join: the method lists, concatenated.
RECURSIVE join(_)
join(defs) ==
    IF defs = << >> THEN ServerServiceDefinition_new(<< >>)
    ELSE ServerServiceDefinition_new(Head(defs).methods \o join(Tail(defs)).methods)

\* find_method resolving a name to the last method registered with it.
find_method_last(self, name) ==
    LET hits == {i \in 1..Len(self.methods) : self.methods[i].name = name}
    IN  IF hits = {} THEN 0
        ELSE CHOOSE i \in hits : \A j \in hits : i >= j

\* ServerServiceDefinition::find_method: the first method of that name, 0
\* where .expect() panics.
find_method(self, name) ==
    LET hits == {i \in 1..Len(self.methods) : self.methods[i].name = name}
    IN  IF hits = {} THEN 0
        ELSE CHOOSE i \in hits : \A j \in hits : i <= j

NoRequest == Request(0, "", 0, << >>, << >>)

\* Calling the closure f of a method: what it does (DoesPanic, DoesReturn*).
Call(f, user, o, req) ==
    CASE f = "empty_call"            -> DoesReturnSingle(empty_call(o, req))
      [] f = "unary_call"            -> DoesReturnSingle(unary_call(o, req))
      [] f = "cacheable_unary_call"  -> DoesReturnSingle(cacheable_unary_call(o, req))
      [] f = "streaming_output_call" -> DoesReturnStreaming(streaming_output_call(o, req))
      [] f = "streaming_input_call"  -> DoesReturnSingle(streaming_input_call(o))
      [] f = "full_duplex_call"      -> DoesReturnStreaming(full_duplex_call(o))
      [] f = "half_duplex_call"      -> DoesReturnStreaming(half_duplex_call(o))
      [] OTHER                       -> user

\* The response future of a call:
\*   "single"  stream_single(req.0).and_then(f) waiting for the request
\*             stream to end (got: the item seen so far);
\*   "ok"      resolved to (metadata, stream);
\*   "err"     failed with an Error;
\*   "panic"   a panic caught by the pool, resumed when the future is polled.
\* Under the pool the future belongs to the pool task until pool = "finished".
Fut(tag, flavor, f, got, metadata, e) ==
    [tag |-> tag, flavor |-> flavor, f |-> f, got |-> got,
     metadata |-> metadata, err |-> e]
FutNone       == Fut("none", "", "", << >>, << >>, NoError)
FutSingle(flavor, f, got) == Fut("single", flavor, f, got, << >>, NoError)
FutOk(md)     == Fut("ok", "", "", << >>, md, NoError)
FutErr(e)     == Fut("err", "", "", << >>, << >>, e)
FutPanic(msg) == Fut("panic", "", "", << >>, << >>, Panic(msg))

\* One record of the closure being called: with the single request message,
\* or with the request stream.
CallRecord(f, with_stream, req) == [f |-> f, with_stream |-> with_stream, req |-> req]

\* What running a piece of the call path gives: the response future and
\* its stream, the closure calls made, and whether a panic unwinds out of it.
Ran(fut, stream, calls) ==
    [fut |-> fut, stream |-> stream, calls |-> calls, panic |-> FALSE, msg |-> ""]
Unwinds(msg, calls) ==
    [fut |-> FutNone, stream |-> EmptyStream, calls |-> calls,
     panic |-> TRUE, msg |-> msg]

\* A StreamingResponse as the state of its future and stream.
Returned(sr, calls) ==
    Ran(IF sr.ok THEN FutOk(sr.metadata) ELSE FutErr(sr.err), sr.stream, calls)

\* What a call c of the closure gives its adapter: the panic, or the response
\* (a SingleResponse through into_stream).
Lifted(c, single, calls) ==
    IF c.does = "panic" THEN Unwinds(c.msg, calls)
    ELSE IF single THEN Returned(into_stream(c.single), calls)
    ELSE Returned(c.streaming, calls)

\* MethodHandlerUnary::handle: nothing runs until the future is polled.
MethodHandlerUnary_handle(f, user, o) ==
    Ran(FutSingle("Unary", f, << >>), EmptyStream, << >>)

\* MethodHandlerClientStreaming::handle: ((self.f)(m, req)).into_stream()
MethodHandlerClientStreaming_handle(f, user, o) ==
    Lifted(Call(f, user, o, NoRequest), TRUE, << CallRecord(f, TRUE, NoRequest) >>)

\* MethodHandlerServerStreaming::handle: nothing runs until the future is
\* polled.
MethodHandlerServerStreaming_handle(f, user, o) ==
    Ran(FutSingle("ServerStreaming", f, << >>), EmptyStream, << >>)

\* MethodHandlerBidi::handle: (self.f)(m, req)
MethodHandlerBidi_handle(f, user, o) ==
    Lifted(Call(f, user, o, NoRequest), FALSE, << CallRecord(f, TRUE, NoRequest) >>)

\* self.method_handler.handle(o, req)
handle(method, user, o) ==
    CASE method.flavor = "Unary" -> MethodHandlerUnary_handle(method.f, user, o)
      [] method.flavor = "ClientStreaming" ->
            MethodHandlerClientStreaming_handle(method.f, user, o)
      [] method.flavor = "ServerStreaming" ->
            MethodHandlerServerStreaming_handle(method.f, user, o)
      [] OTHER -> MethodHandlerBidi_handle(method.f, user, o)

\* MethodHandlerDispatchImpl::start_request: catch_unwind around handle; a
\* caught panic becomes StreamingResponse::err(Error::Panic(message)).
catch_unwind(resp) ==
    IF resp.panic
    THEN Returned(StreamingResponse_err(Panic(resp.msg)), resp.calls)
    ELSE resp

MethodHandlerDispatchImpl_start_request(method, user, o) ==
    catch_unwind(handle(method, user, o))

\* ServerServiceDefinition::handle_method
handle_method(self, name, user, o) ==
    LET i == find_method(self, name)
    IN  IF i = 0 THEN Unwinds("unknown method: " \o name, << >>)
        ELSE MethodHandlerDispatchImpl_start_request(self.methods[i], user, o)

\* The closure given to and_then in the unary and server-streaming handlers,
\* run with the single request: f(m, req).0
and_then_f(fut, user, o, req) ==
    Lifted(Call(fut.f, user, o, req), fut.flavor = "Unary",
           << CallRecord(fut.f, FALSE, req) >>)

-----------------------------------------------------------------------------
(* Polling: the request stream, the response future, the response stream *)

\* stream_single(req.0): polls the decoded request stream to its end; the
\* one item if there was exactly one, an error for none, for a second one,
\* and for an error of the stream.  inbuf holds the frames that have
\* arrived, closed says that no more will.
RECURSIVE stream_single(_, _, _)
stream_single(got, inbuf, closed) ==
    IF inbuf = << >>
    THEN IF ~closed
         THEN [state |-> "notready", got |-> got, inbuf |-> inbuf, err |-> NoError]
         ELSE IF got = << >>
              THEN [state |-> "err", got |-> got, inbuf |-> inbuf,
                    err |-> SingleEmptyError]
              ELSE [state |-> "ok", got |-> got, inbuf |-> inbuf, err |-> NoError]
    ELSE LET m == req_marshaller_read(Head(inbuf))
         IN  IF ~m.ok
             THEN [state |-> "err", got |-> got, inbuf |-> Tail(inbuf), err |-> m.err]
             ELSE IF got # << >>
                  THEN [state |-> "err", got |-> got, inbuf |-> Tail(inbuf),
                        err |-> SingleManyError]
                  ELSE stream_single(<< m.req >>, Tail(inbuf), closed)

\* A poll's result with the request frames left in the buffer.
Polled(ran, inbuf) ==
    [fut |-> ran.fut, stream |-> ran.stream, calls |-> ran.calls,
     panic |-> ran.panic, msg |-> ran.msg, inbuf |-> inbuf]

\* and_then calling the closure as soon as a first request message is there.
and_then_first(fut, stream, user, o, p) ==
    IF p.got # << >> THEN Polled(and_then_f(fut, user, o, p.got[1]), p.inbuf)
    ELSE IF p.state = "notready"
    THEN Polled(Ran(FutSingle(fut.flavor, fut.f, p.got), stream, << >>), p.inbuf)
    ELSE Polled(Ran(FutErr(p.err), stream, << >>), p.inbuf)

\* One poll of the response future grpc_response.0 (of handle_method(..).0
\* in the pool task).
and_then(fut, stream, user, o, p) ==
    CASE p.state = "notready" ->
            Polled(Ran(FutSingle(fut.flavor, fut.f, p.got), stream, << >>), p.inbuf)
      [] p.state = "err" ->
            Polled(Ran(FutErr(p.err), stream, << >>), p.inbuf)
      [] OTHER ->
            Polled(and_then_f(fut, user, o, p.got[1]), p.inbuf)

PollFuture(fut, stream, user, o, inbuf, closed) ==
    IF fut.tag = "single"
    THEN and_then(fut, stream, user, o, stream_single(fut.got, inbuf, closed))
    ELSE IF fut.tag = "panic"
    THEN Polled(Unwinds(fut.err.text, << >>), inbuf)
    ELSE Polled(Ran(fut, stream, << >>), inbuf)

\* One poll of the handler's typed response stream.
RECURSIVE PollTyped(_, _, _)
PollTyped(s, inbuf, closed) ==
    IF s.evs # << >>
    THEN [r |-> Head(s.evs), s |-> [s EXCEPT !.evs = Tail(@)], inbuf |-> inbuf]
    ELSE IF s.src = "none"
    THEN [r |-> End, s |-> s, inbuf |-> inbuf]
    ELSE IF inbuf = << >>
    THEN IF ~closed
         THEN [r |-> NotReady, s |-> s, inbuf |-> inbuf]
         ELSE IF s.src = "flat"
              THEN [r |-> End, s |-> [s EXCEPT !.src = "none"], inbuf |-> inbuf]
              ELSE PollTyped(
                     [s EXCEPT !.src = "none",
                               !.evs = << Item(streaming_input_call_response(s.acc)),
                                          Trailing(<< >>) >>],
                     inbuf, closed)
    ELSE LET m == req_marshaller_read(Head(inbuf))
         IN  IF ~m.ok
             THEN [r |-> Err(m.err),
                   s |-> IF s.src = "fold" THEN [s EXCEPT !.src = "none"] ELSE s,
                   inbuf |-> Tail(inbuf)]
             ELSE IF s.src = "flat"
                  THEN PollTyped([s EXCEPT !.evs = full_duplex_call_map(m.req)],
                                 Tail(inbuf), closed)
                  ELSE PollTyped(
                         [s EXCEPT !.acc = streaming_input_call_fold(@, m.req)],
                         Tail(inbuf), closed)

\* resp.and_then_items(|resp| desc_copy.resp_marshaller.write(&resp)): one
\* poll of the dispatcher's byte stream.
and_then_items(p) ==
    [r |-> IF p.r.ev = "item"
           THEN [p.r EXCEPT !.val = resp_marshaller_write(@)]
           ELSE p.r,
     typed |-> p.r, s |-> p.s, inbuf |-> p.inbuf]

PollBytes(s, inbuf, closed) == and_then_items(PollTyped(s, inbuf, closed))

\* grpc_frames.drop_metadata(): one poll; trailing metadata is skipped.  seen
\* lists what the handler's stream yielded during the poll.
RECURSIVE drop_metadata(_, _, _, _)
Seen(seen, p) ==
    IF p.typed.ev \in {"item", "err", "trailing"} THEN Append(seen, p.typed)
    ELSE seen

\* Dropped with items skipped like trailing metadata.
Dropped_ItemsToo(p, closed, seen) ==
    IF p.r.ev \in {"trailing", "item"}
    THEN drop_metadata(p.s, p.inbuf, closed, Seen(seen, p))
    ELSE [r |-> p.r, s |-> p.s, inbuf |-> p.inbuf, seen |-> Seen(seen, p)]

Dropped(p, closed, seen) ==
    IF p.r.ev = "trailing"
    THEN drop_metadata(p.s, p.inbuf, closed, Seen(seen, p))
    ELSE [r |-> p.r, s |-> p.s, inbuf |-> p.inbuf, seen |-> Seen(seen, p)]

drop_metadata(s, inbuf, closed, seen) ==
    Dropped(PollBytes(s, inbuf, closed), closed, seen)

-----------------------------------------------------------------------------
(* server.rs: GrpcHttpService, the HTTP response *)

NoData == write_grpc_frame_to_vec(resp_marshaller_write(NoResponse))

\* HttpStreamPart::intermediate_data
intermediate_data(data) ==
    [part |-> "data", last |-> FALSE, data |-> data, headers |-> << >>]

\* HttpStreamPart::last_headers
last_headers(headers) ==
    [part |-> "headers", last |-> TRUE, data |-> NoData, headers |-> headers]

\* format!("{:?}", e)
Debug(e) == IF e.kind = "Panic" THEN "Panic(" \o e.text \o ")" ELSE e.text

\* ErrorHeaders with the GrpcMessage arm lost: every error takes the other arm.
ErrorHeaders_OneArm(e) ==
    << Header(":status", "500"),
       Header(HEADER_GRPC_MESSAGE, "error: " \o Debug(e)) >>

\* The headers built from an error of the handler's stream (the match on e).
ErrorHeaders(e) ==
    IF e.kind = "GrpcMessage"
    THEN << Header(":status", "500"),
            Header(HEADER_GRPC_STATUS, ToString(e.grpc_status)),
            Header(HEADER_GRPC_MESSAGE, e.text) >>
    ELSE << Header(":status", "500"),
            Header(HEADER_GRPC_MESSAGE, "error: " \o Debug(e)) >>

\* The part s2 makes of one result of the frame stream: .map(...).then(...)
S2Part(r) ==
    IF r.ev = "item"
    THEN intermediate_data(write_grpc_frame_to_vec(r.val))
    ELSE last_headers(ErrorHeaders(r.err))

\* s3: stream::once of the trailers of a clean end.
S3Part == last_headers(<< Header(HEADER_GRPC_STATUS, "0") >>)

\* The initial headers of a response whose future resolved.
InitHeaders(metadata) ==
    << Header(":status", "200"), Header("content-type", "application/grpc") >>
    \o into_headers(metadata)

\* The HttpResponse as the transport sees it: not yet resolved ("pending"),
\* resolved to headers and a stream of parts ("headers"), failed with an
\* HttpError ("error"), or never returned because a panic unwound through
\* the service ("unwound").
HttpResponse(state, headers, e) == [state |-> state, headers |-> headers, err |-> e]

\* http_response_500: the headers; the part stream is empty.
http_response_500(message) ==
    HttpResponse("headers",
                 << Header(":status", "500"), Header(HEADER_GRPC_MESSAGE, message) >>,
                 NoError)

\* Chained without s3: the end of s2 is the end of the parts.
Chained_NoS3(p) ==
    [out |-> CASE p.r.ev = "notready" -> << >>
               [] p.r.ev = "end" -> << >>
               [] OTHER -> << S2Part(p.r) >>,
     ended |-> FALSE,
     chain |-> IF p.r.ev = "end" THEN "s3" ELSE "s2",
     s |-> p.s, inbuf |-> p.inbuf, seen |-> p.seen]

\* One poll of http_parts = s2.chain(s3) (chain "s2": s2 has not ended;
\* "s3": s3 has given its part), or of HttpPartStream::empty() ("empty").
\* out holds the part produced, ended says that the stream returned None.
Chained(p) ==
    [out |-> CASE p.r.ev = "notready" -> << >>
               [] p.r.ev = "end" -> << S3Part >>
               [] OTHER -> << S2Part(p.r) >>,
     ended |-> FALSE,
     chain |-> IF p.r.ev = "end" THEN "s3" ELSE "s2",
     s |-> p.s, inbuf |-> p.inbuf, seen |-> p.seen]

PollParts(chain, s, inbuf, closed) ==
    IF chain # "s2"
    THEN [out |-> << >>, ended |-> TRUE, chain |-> chain, s |-> s,
          inbuf |-> inbuf, seen |-> << >>]
    ELSE Chained(drop_metadata(s, inbuf, closed, << >>))

-----------------------------------------------------------------------------
(* State *)

VARIABLES
    call_starter,        \* GrpcHttpService.call_starter: which CallStarter
    service_definition,  \* GrpcHttpService.service_definition
    pc,                  \* the call: "idle", "response", "parts", "done"
    headers,             \* the request's headers
    request,             \* the request's frames, as the client sends them
    user,                \* what the user closure of the called method does
    pending,             \* request frames the client has still to send
    inbuf,               \* request frames arrived and not yet polled
    fut,                 \* the response future of the call
    stream,              \* the handler's response stream
    chain,               \* the stream of HTTP parts: "s2", "s3", "empty"
    pool,                \* the pool task: "none", "queued", "parked", "finished"
    response,            \* the HttpResponse as the transport sees it
    parts,               \* the HTTP parts the part stream has produced
    calls,               \* the calls of the user closure made for this call
    yielded,             \* what the handler's stream has yielded so far
    unwound,             \* a panic left the call path: its message, in << >>
    work                 \* which task did which work of the call

vars == << call_starter, service_definition, pc, headers, request, user, pending, inbuf,
           fut, stream, chain, pool, response, parts, calls, yielded, unwound,
           work >>

-----------------------------------------------------------------------------
(* Inputs *)

ReqSizes == Request(0, "", 59, << 1, 2 >>, << 7, 7, 7 >>)
ReqFail  == Request(5, "nope", 1, << 1 >>, << 7 >>)
ReqNone  == Request(0, "", 0, << >>, << >>)

\* The frames a client sends: three messages, and bytes that do not decode.
FrameKinds ==
    { Frame(TRUE, ReqSizes), Frame(TRUE, ReqFail), Frame(TRUE, ReqNone),
      Frame(FALSE, NoRequest) }

FrameSeqs == UNION { [1..n -> FrameKinds] : n \in 0..MaxFrames }

UnknownPath == "/no.such.Service/Method"

Paths(sd) == { sd.methods[i].name : i \in 1..Len(sd.methods) } \cup { UnknownPath }

\* Request headers: with or without :path, with a binary metadata value that
\* is base64 or is not.
RequestHeaders(path, bin) ==
    << Header(":method", "POST"), Header(":path", path),
       Header("content-type", "application/grpc"), Header("te", "trailers"),
       Header("x-client", "c"), Header("trace-bin", bin) >>

WithoutPath(hs) == SelectSeq(hs, LAMBDA h : h.name # ":path")

HeaderInputs(sd) ==
    LET with == { RequestHeaders(p, b) : p \in Paths(sd), b \in {"AQI=", "!"} }
    IN  with \cup { WithoutPath(hs) : hs \in with }

\* The user closures that can be registered for the method a request
\* names: by the flavor of the method found.
Users(sd, hs) ==
    LET path == get_opt(hs, ":path")
        i == IF path.some THEN find_method(sd, path.value) ELSE 0
    IN  IF i = 0 \/ sd.methods[i].f # "user" THEN { NoUser }
        ELSE IF sd.methods[i].flavor \in {"Unary", "ClientStreaming"}
             THEN UserSingle
             ELSE UserStreaming

ServiceDefinitions ==
    { join(<< ServerServiceDefinition_new(TestService),
              ServerServiceDefinition_new(UserService),
              ServerServiceDefinition_new(SecondEmptyCall) >>) }

\* RequestOptions { metadata: metadata }
RequestOptions(hs) == [metadata |-> from_headers(hs).metadata]

\* The work a step did, by what it consumed, called and produced.
Work(task, found, decoded, called, encoded) ==
    { [task |-> task, did |-> d] :
        d \in (IF found THEN {"find_method"} ELSE {})
              \cup (IF decoded THEN {"decode"} ELSE {})
              \cup (IF called THEN {"closure"} ELSE {})
              \cup (IF encoded THEN {"encode"} ELSE {}) }

-----------------------------------------------------------------------------
(* Actions *)

Init ==
    /\ call_starter \in {"CallStarterSync", "CallStarterCpupool"}
    /\ service_definition \in ServiceDefinitions
    /\ pc = "idle"
    /\ headers = << >>
    /\ request = << >>
    /\ user = NoUser
    /\ pending = << >>
    /\ inbuf = << >>
    /\ fut = FutNone
    /\ stream = EmptyStream
    /\ chain = "empty"
    /\ pool = "none"
    /\ response = HttpResponse("pending", << >>, NoError)
    /\ parts = << >>
    /\ calls = << >>
    /\ yielded = << >>
    /\ unwound = << >>
    /\ work = {}

\* CallStarterSync::start: handle_method in the current task.
CallStarterSync_start(sd, name, u, o) == handle_method(sd, name, u, o)

\* start_request returns http_response_500(message) at once.
Returns500(message) ==
    /\ response' = http_response_500(message)
    /\ pc' = "parts"
    /\ chain' = "empty"
    /\ fut' = FutNone
    /\ stream' = EmptyStream
    /\ pool' = "none"
    /\ calls' = << >>
    /\ unwound' = << >>
    /\ work' = {}

\* start_request with CallStarterSync: r is what start ran.
StartedSync(r) ==
    /\ fut' = r.fut
    /\ stream' = r.stream
    /\ calls' = r.calls
    /\ pool' = "none"
    /\ chain' = "s2"
    /\ work' = Work("transport", TRUE, FALSE, r.calls # << >>, FALSE)
    /\ IF r.panic
       THEN /\ unwound' = << r.msg >>
            /\ response' = HttpResponse("unwound", << >>, NoError)
            /\ pc' = "done"
       ELSE /\ unwound' = << >>
            /\ response' = HttpResponse("pending", << >>, NoError)
            /\ pc' = "response"

\* CallStarterCpupool::start: cpu_pool.spawn_fn(...); nothing of the call
\* has run when start_request returns.
CallStarterCpupool_start ==
    /\ fut' = FutNone
    /\ stream' = EmptyStream
    /\ calls' = << >>
    /\ pool' = "queued"
    /\ chain' = "s2"
    /\ work' = {}
    /\ unwound' = << >>
    /\ response' = HttpResponse("pending", << >>, NoError)
    /\ pc' = "response"

\* Service with the metadata decoded before :path is looked at.
Service_MetadataFirst(path, metadata, u) ==
    IF ~metadata.ok THEN Returns500("decode metadata error")
    ELSE IF ~path.some THEN Returns500("no :path header")
    ELSE IF call_starter = "CallStarterSync"
    THEN StartedSync(CallStarterSync_start(service_definition, path.value, u,
                                           [metadata |-> metadata.metadata]))
    ELSE CallStarterCpupool_start

\* The body of start_request: :path, then the metadata, then the call.
Service(path, metadata, u) ==
    IF ~path.some THEN Returns500("no :path header")
    ELSE IF ~metadata.ok THEN Returns500("decode metadata error")
    ELSE IF call_starter = "CallStarterSync"
    THEN StartedSync(CallStarterSync_start(service_definition, path.value, u,
                                           [metadata |-> metadata.metadata]))
    ELSE CallStarterCpupool_start

\* GrpcHttpService::start_request, called by the transport for a new request
\* with headers hs; the client will send the frames of req.
start_request(hs, req, u) ==
    /\ pc = "idle"
    /\ headers' = hs
    /\ request' = req
    /\ user' = u
    /\ pending' = req
    /\ inbuf' = << >>
    /\ parts' = << >>
    /\ yielded' = << >>
    /\ UNCHANGED << call_starter, service_definition >>
    /\ Service(get_opt(hs, ":path"), from_headers(hs), u)

\* The transport receives the next DATA frame of the request.
Recv ==
    /\ pc \in {"response", "parts"}
    /\ pending # << >>
    /\ inbuf' = Append(inbuf, Head(pending))
    /\ pending' = Tail(pending)
    /\ UNCHANGED << call_starter, service_definition, pc, headers, request, user, fut,
                    stream, chain, pool, response, parts, calls, yielded,
                    unwound, work >>

\* The task given to spawn_fn: handle_method on its first run (started is
\* what that ran), then a poll of the future handle_method returned.
PoolTask(started, u, o, buf, closed) ==
    IF started.panic THEN Polled(started, buf)
    ELSE [PollFuture(started.fut, started.stream, u, o, buf, closed)
            EXCEPT !.calls = started.calls \o @]

\* PoolRan with the metadata of the resolved future lost in the pool.
PoolRan_NoMetadata(p) ==
    /\ fut' = IF p.panic THEN FutPanic(p.msg)
              ELSE IF p.fut.tag = "ok" THEN FutOk(<< >>) ELSE p.fut
    /\ stream' = p.stream
    /\ inbuf' = p.inbuf
    /\ calls' = calls \o p.calls
    /\ pool' = IF ~p.panic /\ p.fut.tag = "single" THEN "parked" ELSE "finished"
    /\ work' = work \cup Work("pool", pool = "queued", p.inbuf # inbuf,
                              p.calls # << >>, FALSE)

\* The state after a run p of the pool task; a panic is kept for the
\* CpuFuture.
PoolRan(p) ==
    /\ fut' = IF p.panic THEN FutPanic(p.msg) ELSE p.fut
    /\ stream' = p.stream
    /\ inbuf' = p.inbuf
    /\ calls' = calls \o p.calls
    /\ pool' = IF ~p.panic /\ p.fut.tag = "single" THEN "parked" ELSE "finished"
    /\ work' = work \cup Work("pool", pool = "queued", p.inbuf # inbuf,
                              p.calls # << >>, FALSE)

\* The pool runs the task of CallStarterCpupool::start.
PoolPoll ==
    /\ pc = "response"
    /\ pool \in {"queued", "parked"}
    /\ pool = "parked" => (inbuf # << >> \/ pending = << >>)
    /\ PoolRan(PoolTask(IF pool = "queued"
                        THEN handle_method(service_definition,
                                           get_opt(headers, ":path").value, user,
                                           RequestOptions(headers))
                        ELSE Ran(fut, stream, << >>),
                        user, RequestOptions(headers), inbuf, pending = << >>))
    /\ UNCHANGED << call_starter, service_definition, pc, headers, request, user, pending,
                    chain, response, parts, yielded, unwound >>

\* The state after a poll p of the response future by the transport: the
\* closure of .map(..) builds the headers when the future resolved.
Responded(p) ==
    /\ p.panic \/ p.fut.tag # "single" \/ p.inbuf # inbuf
    /\ stream' = p.stream
    /\ inbuf' = p.inbuf
    /\ calls' = calls \o p.calls
    /\ work' = work \cup Work("transport", FALSE, p.inbuf # inbuf,
                              p.calls # << >>, FALSE)
    /\ IF p.panic
       THEN /\ unwound' = << p.msg >>
            /\ fut' = FutNone
            /\ response' = HttpResponse("unwound", << >>, NoError)
            /\ pc' = "done"
       ELSE /\ unwound' = unwound
            /\ fut' = p.fut
            /\ CASE p.fut.tag = "ok" ->
                      /\ response' = HttpResponse("headers",
                                         InitHeaders(p.fut.metadata), NoError)
                      /\ pc' = "parts"
                 [] p.fut.tag = "err" ->
                      /\ response' = HttpResponse("error", << >>, p.fut.err)
                      /\ pc' = "done"
                 [] OTHER ->
                      /\ response' = response
                      /\ pc' = pc

\* The transport polls the HttpResponse: grpc_response.0.map_err(..).map(..).
\* Under the pool the future is the CpuFuture, ready when the task finished.
PollResponse ==
    /\ pc = "response"
    /\ pool \in {"none", "finished"}
    /\ Responded(PollFuture(fut, stream, user, RequestOptions(headers), inbuf,
                            pending = << >>))
    /\ UNCHANGED << call_starter, service_definition, headers, request, user, pending,
                    chain, pool, parts, yielded >>

\* The state after a poll p of the part stream.
Parted(p) ==
    /\ p.out # << >> \/ p.ended \/ p.inbuf # inbuf
    /\ parts' = parts \o p.out
    /\ yielded' = yielded \o p.seen
    /\ chain' = p.chain
    /\ stream' = p.s
    /\ inbuf' = p.inbuf
    /\ pc' = IF p.ended THEN "done" ELSE "parts"
    /\ work' = work \cup Work("transport", FALSE, p.inbuf # inbuf, FALSE,
                              \E i \in 1..Len(p.seen) : p.seen[i].ev = "item")

\* The transport polls the stream of HTTP parts of the response.
PollPart ==
    /\ pc = "parts"
    /\ Parted(PollParts(chain, stream, inbuf, pending = << >>))
    /\ UNCHANGED << call_starter, service_definition, headers, request, user, pending,
                    fut, pool, response, calls, unwound >>

\* The transport is done with the call's stream and drops it.
Close ==
    /\ pc = "done"
    /\ pc' = "idle"
    /\ headers' = << >>
    /\ request' = << >>
    /\ user' = NoUser
    /\ pending' = << >>
    /\ inbuf' = << >>
    /\ fut' = FutNone
    /\ stream' = EmptyStream
    /\ chain' = "empty"
    /\ pool' = "none"
    /\ response' = HttpResponse("pending", << >>, NoError)
    /\ parts' = << >>
    /\ calls' = << >>
    /\ yielded' = << >>
    /\ unwound' = << >>
    /\ work' = {}
    /\ UNCHANGED << call_starter, service_definition >>

NewRequest ==
    /\ pc = "idle"
    /\ \E hs \in HeaderInputs(service_definition), req \in FrameSeqs :
          \E u \in Users(service_definition, hs) : start_request(hs, req, u)

Next == NewRequest \/ Recv \/ PoolPoll \/ PollResponse \/ PollPart \/ Close

Spec == Init /\ [][Next]_vars

\* The same server with requests of at most MaxLiveFrames frames, and the
\* transport polling the part stream of a response again whenever a poll can
\* make progress (the stream's task is woken by what it waits for).
LiveFrameSeqs == UNION { [1..n -> FrameKinds] : n \in 0..MaxLiveFrames }

NewRequestLive ==
    /\ pc = "idle"
    /\ \E hs \in HeaderInputs(service_definition), req \in LiveFrameSeqs :
          \E u \in Users(service_definition, hs) : start_request(hs, req, u)

LiveNext == NewRequestLive \/ Recv \/ PoolPoll \/ PollResponse \/ PollPart \/ Close

LiveSpec == Init /\ [][LiveNext]_vars /\ WF_vars(PollPart)

-----------------------------------------------------------------------------
(* What a client of the call observes *)

\* The method the request names, 0 when it names none.
Named ==
    IF get_opt(headers, ":path").some
    THEN find_method(service_definition, get_opt(headers, ":path").value)
    ELSE 0

\* The response future resolved and start_request's closure built the
\* initial headers of the call.
Opened == response.state = "headers" /\ chain # "empty"

\* The part stream of an opened call returned None.
Ended == Opened /\ pc = "done"

IsData(i) == parts[i].part = "data"
IsTrailers(i) == parts[i].part = "headers"

\* The values of the headers called name in a block, in order.
Values(hs, name) ==
    LET named == SelectSeq(hs, LAMBDA h : h.name = name)
    IN  [i \in 1..Len(named) |-> named[i].value]

\* The trailers blocks that carry grpc-status.
StatusBlocks ==
    { i \in 1..Len(parts) :
        IsTrailers(i) /\ Values(parts[i].headers, HEADER_GRPC_STATUS) # << >> }

\* The items and errors the handler's stream has yielded; the k-th of them
\* is what s2 made part k of.
Results == SelectSeq(yielded, LAMBDA e : e.ev # "trailing")

Errored == \E k \in 1..Len(Results) : Results[k].ev = "err"

-----------------------------------------------------------------------------
(* Claims *)

\* C1: a call whose response produced initial headers has, when its part
\* stream has ended, exactly one trailers block carrying grpc-status, and
\* that block is the last part; on a clean end and on an error alike.
C1_OneStatusTrailerLast ==
    Ended => /\ Cardinality(StatusBlocks) = 1
             /\ Len(parts) \in StatusBlocks

\* C2: a trailers block with grpc-status 0 is emitted only when the
\* handler's stream completed without yielding an error.
C2_StatusZeroOnlyAfterCleanEnd ==
    \A i \in StatusBlocks :
        Values(parts[i].headers, HEADER_GRPC_STATUS) = << "0" >> => ~Errored

\* C3: once the handler's stream has yielded an error no further data part
\* is emitted: every data part precedes the part made of the error.
C3_NoDataAfterError ==
    \A k \in 1..Len(Results) :
        Results[k].ev = "err" =>
            \A j \in 1..Len(parts) : IsData(j) => j < k

\* C4: an error GrpcMessage{status = s, message = m} of the handler becomes
\* a trailers block, not a data part, carrying exactly grpc-status = s and
\* grpc-message = m; UnaryCall with response_status.code # 0 has no data part.
C4_StatusPassthrough ==
    /\ \A k \in 1..Len(Results) :
          (Results[k].ev = "err" /\ Results[k].err.kind = "GrpcMessage") =>
              /\ k <= Len(parts)
              /\ IsTrailers(k)
              /\ Values(parts[k].headers, HEADER_GRPC_STATUS)
                    = << ToString(Results[k].err.grpc_status) >>
              /\ Values(parts[k].headers, HEADER_GRPC_MESSAGE)
                    = << Results[k].err.text >>
    /\ \A c \in 1..Len(calls) :
          (calls[c].f = "unary_call" /\ calls[c].req.code # 0) =>
              /\ \A j \in 1..Len(parts) : ~IsData(j)
              /\ Ended =>
                    /\ Values(parts[1].headers, HEADER_GRPC_STATUS)
                          = << ToString(calls[c].req.code) >>
                    /\ Values(parts[1].headers, HEADER_GRPC_MESSAGE)
                          = << calls[c].req.message >>

\* C4 witness: UnaryCall asked for status 5 "nope" has ended, its first part
\* the trailers with grpc-status 5 and grpc-message nope.
C4_Witness ==
    /\ Ended
    /\ calls = << CallRecord("unary_call", FALSE, ReqFail) >>
    /\ Values(parts[1].headers, HEADER_GRPC_STATUS) = << "5" >>
    /\ Values(parts[1].headers, HEADER_GRPC_MESSAGE) = << "nope" >>

\* C5: an error of the handler's stream other than GrpcMessage becomes
\* trailers carrying grpc-status 2 and a grpc-message holding its debug
\* rendering.
C5_OtherErrorIsUnknown ==
    \A k \in 1..Len(Results) :
        (Results[k].ev = "err" /\ Results[k].err.kind # "GrpcMessage") =>
            /\ k <= Len(parts)
            /\ IsTrailers(k)
            /\ Values(parts[k].headers, HEADER_GRPC_STATUS) = << "2" >>
            /\ Values(parts[k].headers, HEADER_GRPC_MESSAGE)
                  = << "error: " \o Debug(Results[k].err) >>

\* C6: a user closure that panics gives a response whose trailers carry
\* grpc-status 13, and the panic does not leave the call.
C6_PanicContained ==
    (pc = "done" /\ user.does = "panic" /\ calls # << >>) =>
        /\ unwound = << >>
        /\ \E i \in StatusBlocks :
              Values(parts[i].headers, HEADER_GRPC_STATUS) = << "13" >>

\* C7: a request for a method that is not registered gives a trailers-only
\* response with grpc-status 12, without a panic and without a handler
\* being called.
C7_UnknownMethodUnimplemented ==
    (pc = "done" /\ get_opt(headers, ":path").some /\ Named = 0
                 /\ from_headers(headers).ok) =>
        /\ unwound = << >>
        /\ calls = << >>
        /\ \A j \in 1..Len(parts) : ~IsData(j)
        /\ \/ Values(response.headers, HEADER_GRPC_STATUS) = << "12" >>
           \/ \E i \in StatusBlocks :
                 Values(parts[i].headers, HEADER_GRPC_STATUS) = << "12" >>

\* C8: a unary method called with no request message, or with two or more,
\* gives a trailers-only response with grpc-status 13 and no data part.
C8_UnaryArity ==
    (pc = "done" /\ Named # 0 /\ from_headers(headers).ok /\ Len(request) # 1
                 /\ service_definition.methods[Named].flavor = "Unary") =>
        /\ \A j \in 1..Len(parts) : ~IsData(j)
        /\ \/ Values(response.headers, HEADER_GRPC_STATUS) = << "13" >>
           \/ \E i \in StatusBlocks :
                 Values(parts[i].headers, HEADER_GRPC_STATUS) = << "13" >>

\* The request carries a binary metadata value that is not base64.
BadMetadata == \E i \in 1..Len(headers) : headers[i] = Header("trace-bin", "!")

\* The response is the 500 of http_response_500(message), nothing else
\* was or is produced, and neither the call starter nor a handler ran.
Only500(message) ==
    /\ response = HttpResponse("headers",
                      << Header(":status", "500"),
                         Header(HEADER_GRPC_MESSAGE, message) >>, NoError)
    /\ parts = << >>
    /\ calls = << >>
    /\ work = {}
    /\ pool = "none"
    /\ fut = FutNone

\* C9: a request without :path gets the trailers-only 500 "no :path header"
\* (also when its metadata would not decode), a request with :path whose
\* metadata does not decode the 500 "decode metadata error"; no data, no
\* call starter, no handler.
C9_HeaderFailure500 ==
    /\ (pc # "idle" /\ ~get_opt(headers, ":path").some) =>
            Only500("no :path header")
    /\ (pc # "idle" /\ get_opt(headers, ":path").some /\ BadMetadata) =>
            Only500("decode metadata error")

\* C9 witness: a request without :path and with metadata that does not
\* decode was answered and its (empty) part stream has ended.
C9_Witness ==
    /\ pc = "done"
    /\ ~get_opt(headers, ":path").some
    /\ BadMetadata
    /\ Values(response.headers, HEADER_GRPC_MESSAGE) = << "no :path header" >>

\* C10: the initial headers (:status 200, content-type, the handler's
\* initial metadata) come before the first data part, the trailers after
\* the last: no data part before the headers or after a trailers block.
C10_HeadersDataTrailers ==
    /\ parts # << >> => Opened
    /\ Opened =>
          response.headers =
              << Header(":status", "200"),
                 Header("content-type", "application/grpc") >>
              \o into_headers(fut.metadata)
    /\ \A i, j \in 1..Len(parts) : (IsTrailers(i) /\ IsData(j)) => j < i

\* The data part that carries a response message: marshalled, framed.
DataPartOf(resp) ==
    intermediate_data(write_grpc_frame_to_vec(resp_marshaller_write(resp)))

\* The k-th result of the handler's stream comes before any error.
BeforeError(k) == \A j \in 1..k : Results[j].ev = "item"

\* C11: every item the handler's stream yields before any error is exactly
\* one data part, at the item's place in the order of the parts: the k-th
\* item is part k, holding that item's bytes.
C11_ItemsInOrder ==
    \A k \in 1..Len(Results) :
        BeforeError(k) =>
            /\ k <= Len(parts)
            /\ parts[k] = DataPartOf(Results[k].val)
            /\ Cardinality({ j \in 1..k : IsData(j) }) = k

\* C11 witness: a user's stream yielded two different items and trailing
\* metadata and ended; the parts are the two data parts in that order and
\* the trailers.
C11_Witness ==
    /\ Ended
    /\ yielded = << Item(UserItem(1)), Item(UserItem(2)), Trailing(UserTrailing) >>
    /\ Len(parts) = 3
    /\ parts[1] = DataPartOf(UserItem(1))
    /\ parts[2] = DataPartOf(UserItem(2))
    /\ IsTrailers(3)

\* The parts of s2.chain(s3) polled to its end with the whole request
\* arrived.
RECURSIVE AllParts(_, _, _, _)
AllPartsAfter(p, out) ==
    IF p.ended THEN out ELSE AllParts(p.chain, p.s, p.inbuf, out \o p.out)

AllParts(ch, s, buf, out) == AllPartsAfter(PollParts(ch, s, buf, TRUE), out)

\* What the transport gets of a response future polled once, p, with the
\* whole request arrived: the HttpResponse and all its parts.
WireOf(p) ==
    IF p.panic THEN [response |-> HttpResponse("unwound", << >>, NoError),
                     parts |-> << >>]
    ELSE IF p.fut.tag = "err"
    THEN [response |-> HttpResponse("error", << >>, p.fut.err), parts |-> << >>]
    ELSE [response |-> HttpResponse("headers", InitHeaders(p.fut.metadata), NoError),
          parts |-> AllParts("s2", p.stream, p.inbuf, << >>)]

\* The response of CallStarterSync to a request, run in one go.
InlineAfter(r, hs, req, u) ==
    IF r.panic THEN WireOf(Polled(r, req))
    ELSE WireOf(PollFuture(r.fut, r.stream, u, RequestOptions(hs), req, TRUE))

Inline(sd, hs, req, u) ==
    InlineAfter(CallStarterSync_start(sd, get_opt(hs, ":path").value, u,
                                      RequestOptions(hs)),
                hs, req, u)

\* The call reached a handler that did not panic and whose stream yielded
\* no error, and the call is over.
CorrectHandlerDone ==
    /\ Ended
    /\ Named # 0
    /\ user.does # "panic"
    /\ ~Errored

\* C12: for the same service definition, method name, options and request,
\* and a handler that neither panics nor errors, the response under
\* CallStarterCpupool is the response under CallStarterSync: the same initial
\* headers and the same parts in the same order, whatever the interleaving
\* of the pool task, the transport and the arrival of the request.
C12_StartersAgree ==
    CorrectHandlerDone =>
        [response |-> response, parts |-> parts]
            = Inline(service_definition, headers, request, user)

\* C12 witness: under CallStarterCpupool a user's unary handler answered
\* with initial metadata, one item and trailing metadata, and the call is
\* over with the response the inline starter gives.
C12_Witness ==
    /\ call_starter = "CallStarterCpupool"
    /\ CorrectHandlerDone
    /\ pool = "finished"
    /\ response.headers = InitHeaders(UserMetadata)
    /\ parts = << DataPartOf(UserItem(1)), S3Part >>
    /\ parts = Inline(service_definition, headers, request, user).parts

\* C13: under CallStarterCpupool all the dispatch work of a call (finding
\* the method, decoding request frames, running the closure, encoding
\* response items) is done by the pool task, none by the transport task.
C13_PoolOwnsDispatch ==
    call_starter = "CallStarterCpupool" => \A w \in work : w.task = "pool"

\* The trailing metadata the handler's stream has yielded, as headers.
TrailingHeaders ==
    { Header(md.key, md.value) :
        md \in UNION { { yielded[k].md[n] : n \in 1..Len(yielded[k].md) }
                       : k \in 1..Len(yielded) } }

\* C14: the trailing metadata the handler supplied is in the trailers of the
\* call, in a block that carries grpc-status.
C14_TrailingMetadataDelivered ==
    Ended =>
        \A h \in TrailingHeaders :
            \E i \in StatusBlocks :
                \E n \in 1..Len(parts[i].headers) : parts[i].headers[n] = h

\* The places of the methods registered with the name the request asks for.
Registered ==
    { i \in 1..Len(service_definition.methods) :
        /\ get_opt(headers, ":path").some
        /\ service_definition.methods[i].name = get_opt(headers, ":path").value }

\* C15 as stated: the closure called for a request is that of the last
\* method registered with the requested name.
C15_LastRegisteredWins ==
    \A c \in 1..Len(calls) :
        \E i \in Registered :
            /\ calls[c].f = service_definition.methods[i].f
            /\ \A j \in Registered : j <= i

\* C15, amended: the closure called for a request is that of the first
\* method registered with the requested name (the only one, when the name
\* is registered once); names are compared by string equality.
C15_FirstRegisteredWins ==
    \A c \in 1..Len(calls) :
        \E i \in Registered :
            /\ calls[c].f = service_definition.methods[i].f
            /\ \A j \in Registered : i <= j

\* C15 witness: EmptyCall is registered twice, first with empty_call and
\* then with unary_call; a request for it was answered by empty_call.
C15_Witness ==
    /\ Ended
    /\ Cardinality(Registered) = 2
    /\ calls = << CallRecord("empty_call", FALSE, ReqSizes) >>
    /\ parts = << DataPartOf(Response("Empty", << >>, 0)), S3Part >>

\* The request asks for the method called name.
Asked(name) ==
    /\ get_opt(headers, ":path").some
    /\ get_opt(headers, ":path").value = name

\* The client sends exactly one request message, and it decodes.
OneRequest == Len(request) = 1 /\ request[1].valid

\* The payload body of the message in a data part.
BodyOf(part) == part.data.payload.bytes_of.body

\* C16: StreamingOutputCall with response_parameters sizes [s1..sn] gives n
\* data parts, the i-th with a payload body of length si, in the order of
\* the list, and then the trailers grpc-status 0; an empty list gives the
\* trailers alone.
C16_StreamingOutputSizes ==
    (Asked("/grpc.testing.TestService/StreamingOutputCall") /\ OneRequest /\ Opened) =>
        /\ \A i \in 1..Len(parts) :
              IF i <= Len(request[1].msg.sizes)
              THEN /\ IsData(i)
                   /\ parts[i].data.payload.bytes_of.type = "StreamingOutputCallResponse"
                   /\ Len(BodyOf(parts[i])) = request[1].msg.sizes[i]
              ELSE /\ i = Len(request[1].msg.sizes) + 1
                   /\ parts[i] = S3Part
        /\ Ended => Len(parts) = Len(request[1].msg.sizes) + 1

\* C16 witness: StreamingOutputCall asked for sizes [1, 2] has ended with a
\* body of length 1, a body of length 2 and the trailers grpc-status 0.
C16_Witness ==
    /\ Asked("/grpc.testing.TestService/StreamingOutputCall")
    /\ request = << Frame(TRUE, ReqSizes) >>
    /\ Ended
    /\ Len(parts) = 3
    /\ Len(BodyOf(parts[1])) = 1
    /\ Len(BodyOf(parts[2])) = 2
    /\ Values(parts[3].headers, HEADER_GRPC_STATUS) = << "0" >>

\* C16 witness, empty list: the call has ended with the trailers alone.
C16_WitnessEmpty ==
    /\ Asked("/grpc.testing.TestService/StreamingOutputCall")
    /\ request = << Frame(TRUE, ReqNone) >>
    /\ Ended
    /\ parts = << S3Part >>

\* Every frame of the request decodes.
AllDecode == \A i \in 1..Len(request) : request[i].valid

\* The sum of the payload body lengths of the first n request messages.
RECURSIVE BodyLengths(_)
BodyLengths(n) ==
    IF n = 0 THEN 0 ELSE BodyLengths(n - 1) + Len(request[n].msg.body)

\* C17: StreamingInputCall gives no part before the request stream has
\* ended, and then exactly one data part, whose aggregated_payload_size is
\* the sum of the payload body lengths of all request messages (0 for an
\* empty request), followed by the trailers grpc-status 0.
C17_StreamingInputSum ==
    (Asked("/grpc.testing.TestService/StreamingInputCall") /\ AllDecode /\ Opened) =>
        /\ parts # << >> => (pending = << >> /\ inbuf = << >>)
        /\ \A i \in 1..Len(parts) :
              /\ i <= 2
              /\ i = 1 => parts[i] = DataPartOf(Response("StreamingInputCallResponse",
                                          << >>, BodyLengths(Len(request))))
              /\ i = 2 => parts[i] = S3Part
        /\ Ended => Len(parts) = 2

\* C17 witness: StreamingInputCall sent bodies of 3, 1 and 3 bytes has ended
\* with one response, aggregated_payload_size 7, and the trailers.
C17_Witness ==
    /\ Asked("/grpc.testing.TestService/StreamingInputCall")
    /\ request = << Frame(TRUE, ReqSizes), Frame(TRUE, ReqFail), Frame(TRUE, ReqSizes) >>
    /\ Ended
    /\ Len(parts) = 2
    /\ parts[1].data.payload.bytes_of.aggregated_payload_size = 7
    /\ Values(parts[2].headers, HEADER_GRPC_STATUS) = << "0" >>

\* C17 witness, empty request: one response with aggregated_payload_size 0.
C17_WitnessEmpty ==
    /\ Asked("/grpc.testing.TestService/StreamingInputCall")
    /\ request = << >>
    /\ Ended
    /\ Len(parts) = 2
    /\ parts[1].data.payload.bytes_of.aggregated_payload_size = 0

\* The dictionary as the statement spells it:
\* ABCDEFGHIJKLMNOPQRSTUV abcdefghijklmno q p rstuvwxyz 0123456789
ClaimedDictionary ==
    [i \in 1..22 |-> 64 + i] \o [i \in 1..15 |-> 96 + i] \o << 113, 112 >>
    \o [i \in 1..9 |-> 113 + i] \o [i \in 1..10 |-> 47 + i]

\* C18: UnaryCall with response_status.code = 0 and response_size = n gives
\* one response whose payload body has length n and whose byte at index i
\* (from 0) is byte i mod 58 of the dictionary, and then grpc-status 0.
C18_UnaryDictionary ==
    (Asked("/grpc.testing.TestService/UnaryCall") /\ OneRequest
        /\ request[1].msg.code = 0 /\ Opened) =>
        /\ Len(ClaimedDictionary) = 58
        /\ \A i \in 1..Len(parts) :
              /\ i <= 2
              /\ i = 1 =>
                    /\ IsData(i)
                    /\ parts[i].data.payload.bytes_of.type = "SimpleResponse"
                    /\ Len(BodyOf(parts[i])) = request[1].msg.response_size
                    /\ \A k \in 0..(request[1].msg.response_size - 1) :
                          BodyOf(parts[i])[k + 1] = ClaimedDictionary[(k % 58) + 1]
              /\ i = 2 => parts[i] = S3Part
        /\ Ended => Len(parts) = 2

\* C18 witness: UnaryCall asked for 59 bytes has ended; the body is the
\* whole dictionary (with q before p) followed by its first byte again.
C18_Witness ==
    /\ Asked("/grpc.testing.TestService/UnaryCall")
    /\ request = << Frame(TRUE, ReqSizes) >>
    /\ Ended
    /\ Len(BodyOf(parts[1])) = 59
    /\ SubSeq(BodyOf(parts[1]), 1, 58) = ClaimedDictionary
    /\ BodyOf(parts[1])[38] = 113
    /\ BodyOf(parts[1])[39] = 112
    /\ BodyOf(parts[1])[59] = 65

\* C18 witness, n = 0: the response has an empty body.
C18_WitnessEmpty ==
    /\ Asked("/grpc.testing.TestService/UnaryCall")
    /\ request = << Frame(TRUE, ReqNone) >>
    /\ Ended
    /\ parts = << DataPartOf(Response("SimpleResponse", << >>, 0)), S3Part >>

\* The handler's stream has nothing more to wait for: what is left of it
\* is already computed and it takes no more of the request.
Terminating == Opened /\ pc = "parts" /\ stream.src = "none"

\* The part stream has ended and its last part is a trailers block.
EndedWithTrailers == Ended /\ parts # << >> /\ IsTrailers(Len(parts))

\* C19: once the initial headers are out and the handler's stream comes to
\* its end, cleanly or after an error, a trailers block is eventually
\* emitted and the part stream ends; and no part stream of an opened call
\* ends without trailers as its last part.
C19_TrailersEventually ==
    /\ [](Ended => EndedWithTrailers)
    /\ Terminating ~> EndedWithTrailers

\* C19 witness: a user's stream yielded an item and then an error; the call
\* has ended with trailers as its last part.
C19_Witness ==
    /\ EndedWithTrailers
    /\ Results = << Item(UserItem(1)), Err(UserError) >>
    /\ Len(parts) = 3
    /\ IsData(1)
    /\ IsTrailers(2)

\* The request names a unary or a server-streaming method.
SingleRequestMethod ==
    /\ Named # 0
    /\ service_definition.methods[Named].flavor \in {"Unary", "ServerStreaming"}

\* C20: the unary and the server-streaming adapters call the closure at most
\* once per call, with the one request message, and only when the request
\* stream has ended having yielded exactly that message; a request stream
\* with no message, with two or more, or with a frame that does not decode
\* never reaches the closure.
C20_ClosureOnceWithSingle ==
    SingleRequestMethod =>
        /\ Len(calls) <= 1
        /\ \A c \in 1..Len(calls) :
              /\ ~calls[c].with_stream
              /\ OneRequest
              /\ calls[c].req = request[1].msg
              /\ calls[c].f = service_definition.methods[Named].f
              /\ pending = << >>
              /\ inbuf = << >>

\* C20 witness: a user's server-streaming closure was called once, with the
\* single request message, and the call is over.
C20_Witness ==
    /\ Asked("/user.Service/ServerStreaming")
    /\ pc = "done"
    /\ request = << Frame(TRUE, ReqSizes) >>
    /\ calls = << CallRecord("user", FALSE, ReqSizes) >>

\* C20 witness, two messages: the call is over and the closure never ran.
C20_WitnessMany ==
    /\ Asked("/user.Service/Unary")
    /\ pc = "done"
    /\ request = << Frame(TRUE, ReqSizes), Frame(TRUE, ReqNone) >>
    /\ user \in UserSingle
    /\ calls = << >>
    /\ response.err = SingleManyError

====
